---- MODULE Spec2Model ----
(***************************************************************************)
(* Row-wise distributed matrix multiplication C = A.B over a fixed group   *)
(* of MPI ranks (mpi_matrix_multiplication.py).  Every rank runs           *)
(* mpi_matrix_multiply; rank 0 is the root.  Matrix elements are integers  *)
(* (the floating-point elements of the program are abstracted to exact     *)
(* arithmetic), generated from the fixed seed of initialize_matrices.      *)
(***************************************************************************)
EXTENDS Integers, Sequences, FiniteSets, TLC

VARIABLES
    size,          \* matrix dimension of the call (total_rows)
    num_procs,     \* comm.Get_size()
    caller,        \* "direct" (one call), "benchmark" (benchmark_mpi) or "verify" (main with --verify)
    sendMode,      \* how the library completes a blocking comm.send
    bcastMode,     \* whether the library's bcast synchronises the group
    pc,            \* pc[r]: position of rank r
    A,             \* A[r]: rank r's variable A (None off the root)
    B,             \* B[r]: rank r's variable B
    local_A,       \* local_A[r]
    local_rows,    \* local_rows[r]
    start_row,     \* start_row[r]
    local_C,       \* local_C[r]
    C,             \* the root's result matrix C
    proc,          \* the root's loop variable proc (scatter loop, gather loop)
    ret,           \* ret[r]: value returned by mpi_matrix_multiply on rank r
    net,           \* net[<<src, dst>>]: messages sent and not yet received, in send order
    bcastBuf,      \* bcastBuf[k]: the value the root handed to the bcast of call k
    bcastEntered,  \* bcastEntered[k]: ranks that have called the bcast of call k
    barrierCnt,    \* barrierCnt[r]: number of comm.Barrier() calls rank r has made
    issued,        \* per phase and peer rank, number of sends / receives issued
    scatterTags,   \* tags used by scatter-phase sends
    gatherTags,    \* tags used by gather-phase sends
    num_runs,      \* number of timed runs the benchmark loop makes
    run,           \* run[r]: number of calls of mpi_matrix_multiply rank r has behind it
    rng,           \* rng[r]: position of rank r's numpy generator in the stream of the seed
    writes,        \* writes[i]: the ranks whose block was copied into row i of C, in order
    results,       \* the matrices mpi_matrix_multiply returned on the root, call by call
    verdict,       \* verdict[r]: value returned by verify_correctness on rank r
    verify_C_serial, \* the root's C_serial in verify_correctness
    dots,          \* dots[r]: number of np.dot calls rank r has made inside mpi_matrix_multiply
    sizes          \* sizes[k]: the size argument of call k (size is that of call 0)

vars == <<size, num_procs, caller, sendMode, bcastMode, pc, A, B, local_A,
          local_rows, start_row, local_C, C, proc, ret, net, bcastBuf,
          bcastEntered, barrierCnt, issued, scatterTags, gatherTags,
          num_runs, run, rng, writes, results, verdict, verify_C_serial, dots, sizes>>

\* ---------------------------------------------------------------- bounds
MaxSize == 5
MaxProcs == 3
ValMod == 4
MaxTagSize == 102
MaxTagProcs == 102
MaxNegSize == 2
MaxRuns == 2
MaxRunSize == 3
MaxRunProcs == 2
MaxSeqSize == 2
MaxSeqProcs == 2

\* ------------------------------------------------------ program constants
Seed == 42
GatherTagOffset == 100
NumSeqCalls == 3

\* ---------------------------------------------------------------- values
None == [none |-> TRUE]

Min(a, b) == IF a < b THEN a ELSE b
Max(a, b) == IF a > b THEN a ELSE b

Ranks == 0 .. (num_procs - 1)

\* the calls of mpi_matrix_multiply every rank makes, numbered from 0: main makes
\* one in verify_correctness before the runs of benchmark_mpi
NumCalls == num_runs + (IF caller = "verify" THEN 1 ELSE 0)
Calls == 0 .. (NumCalls - 1)

\* the size argument of the call rank r is in
CallSize(r) == sizes[run[r]]

\* np.zeros((r, c))
Zeros(r, c) ==
    [rows |-> r, cols |-> c, data |-> [i \in 0 .. (r - 1) |-> [j \in 0 .. (c - 1) |-> 0]]]

\* b^e modulo 32749, by repeated squaring
RECURSIVE PowMod(_, _)
PowMod(b, e) ==
    IF e = 0 THEN 1
    ELSE LET h == PowMod(b, e \div 2)
         IN  (((h * h) % 32749) * (IF e % 2 = 1 THEN b ELSE 1)) % 32749

\* the state of the generator seeded by np.random.seed(Seed) after k draws
\* (a multiplicative congruential stream stands for numpy's generator)
RandState(k) == (Seed * PowMod(75, k)) % 32749

Draw(k) == RandState(k + 1) % ValMod

\* a generator call that yields a single column whatever width is asked for
RandColumn(r, c, from) ==
    [rows |-> r, cols |-> 1,
     data |-> [i \in 0 .. (r - 1) |-> [j \in 0 .. 0 |-> Draw(from + i)]]]

\* np.random.rand(r, c) drawing from position `from` of the stream, row-major
Rand(r, c, from) ==
    [rows |-> r, cols |-> c,
     data |-> [i \in 0 .. (r - 1) |-> [j \in 0 .. (c - 1) |-> Draw(from + i * c + j)]]]

\* M[start : start + cnt] (a numpy slice clamps to the rows that exist)
Slice(M, start, cnt) ==
    LET lo == Min(start, M.rows)
        hi == Min(start + cnt, M.rows)
        n  == Max(hi - lo, 0)
    IN  [rows |-> n, cols |-> M.cols, data |-> [i \in 0 .. (n - 1) |-> M.data[lo + i]]]

\* whether M[start : start + cnt] = V is accepted (shapes equal, or V broadcast)
AssignOK(M, start, cnt, V) ==
    LET n == Slice(M, start, cnt).rows
    IN  /\ V.rows = n \/ V.rows = 1
        /\ V.cols = M.cols \/ V.cols = 1

\* M after M[start : start + cnt] = V
Assign(M, start, cnt, V) ==
    LET lo == Min(start, M.rows)
        n  == Slice(M, start, cnt).rows
    IN  [M EXCEPT !.data =
            [i \in 0 .. (M.rows - 1) |->
                IF i >= lo /\ i < lo + n
                THEN [j \in 0 .. (M.cols - 1) |->
                        V.data[IF V.rows = 1 THEN 0 ELSE i - lo][IF V.cols = 1 THEN 0 ELSE j]]
                ELSE M.data[i]]]

RECURSIVE SumTo(_, _)
SumTo(f, n) == IF n = 0 THEN 0 ELSE f[n - 1] + SumTo(f, n - 1)

\* whether np.dot(X, Y) is defined
DotOK(X, Y) == X # None /\ Y # None /\ X.cols = Y.rows

\* np.dot(X, Y)
Dot(X, Y) ==
    [rows |-> X.rows, cols |-> Y.cols,
     data |-> [i \in 0 .. (X.rows - 1) |-> [j \in 0 .. (Y.cols - 1) |->
                 SumTo([p \in 0 .. (X.cols - 1) |-> X.data[i][p] * Y.data[p][j]], X.cols)]]]

\* serial_matrix_multiply(A, B)
serial_matrix_multiply(X, Y) == Dot(X, Y)

\* ------------------------------------------------------------- partition
rows_per_proc(n, p) == n \div p
remainder(n, p) == n % p

\* a start row that forgets the extra rows of the first `remainder` ranks
CalcStartRowNoRemainder(n, p, rank) == rank * rows_per_proc(n, p)

\* a row count that gives the extra row to rank `remainder` too
CalcLocalRowsOffByOne(n, p, rank) ==
    IF rank <= remainder(n, p) THEN rows_per_proc(n, p) + 1 ELSE rows_per_proc(n, p)

\* a row count that hands every extra row to the last rank
CalcLocalRowsLastTakesRest(n, p, rank) ==
    IF rank = p - 1 THEN rows_per_proc(n, p) + remainder(n, p) ELSE rows_per_proc(n, p)

\* a row count that leaves no rank without a row
CalcLocalRowsAtLeastOne(n, p, rank) ==
    IF rank < n % p THEN (n \div p) + 1 ELSE Max(1, n \div p)

\* local_rows and start_row as a rank computes them for itself
CalcLocalRows(n, p, rank) ==
    IF rank < remainder(n, p) THEN rows_per_proc(n, p) + 1 ELSE rows_per_proc(n, p)

CalcStartRow(n, p, rank) ==
    IF rank < remainder(n, p)
    THEN rank * (rows_per_proc(n, p) + 1)
    ELSE remainder(n, p) * (rows_per_proc(n, p) + 1) + (rank - remainder(n, p)) * rows_per_proc(n, p)

\* a scatter row count that forgets the extra row of the first `remainder` ranks
ScatterProcRowsNoRemainder(n, p, q) == rows_per_proc(n, p)

\* a scatter row count that rounds every rank's share up
ScatterProcRowsCeil(n, p, q) == (n + p - 1) \div p

\* proc_rows and proc_start as the root computes them in its scatter loop
ScatterProcRows(n, p, q) ==
    IF q < remainder(n, p) THEN rows_per_proc(n, p) + 1 ELSE rows_per_proc(n, p)

\* a scatter loop that places the blocks as if no rank held an extra row
ScatterProcStartNoRemainder(n, p, q) == q * rows_per_proc(n, p)

ScatterProcStart(n, p, q) ==
    IF q < remainder(n, p)
    THEN q * (rows_per_proc(n, p) + 1)
    ELSE remainder(n, p) * (rows_per_proc(n, p) + 1) + (q - remainder(n, p)) * rows_per_proc(n, p)

\* a gather offset that gives every earlier rank an extra row
GatherProcStartAllExtra(n, p, q) == q * ((n \div p) + 1)

\* a gather row count that rounds every rank's share up
GatherProcRowsCeil(n, p, q) == (n + p - 1) \div p

\* a gather row count that forgets the extra row of the first `remainder` ranks
GatherProcRowsNoRemainder(n, p, q) == n \div p

\* a gather offset that forgets the extra rows of the first `remainder` ranks
GatherProcStartNoRemainder(n, p, q) == q * (n \div p)

\* proc_rows and proc_start as the root computes them in its gather loop
GatherProcRows(n, p, q) ==
    IF q < (n % p) THEN (n \div p) + 1 ELSE n \div p

GatherProcStart(n, p, q) ==
    IF q < (n % p)
    THEN q * ((n \div p) + 1)
    ELSE (n % p) * ((n \div p) + 1) + (q - (n % p)) * (n \div p)

\* a guard that lets an empty block through
NonEmptyOrZero(rows) == rows >= 0

\* a test that lets every rank through, with rows or without
NonEmptyAlways(rows) == TRUE

\* the test `if proc_rows > 0:` / `if local_rows > 0:` that guards every transfer
NonEmpty(rows) == rows > 0

\* a loop over the workers that starts at the root itself
FirstWorkerIsRoot == 1 - 1

\* the first rank of `for proc in range(1, num_procs)`
FirstWorker == 1

\* ------------------------------------------------------------------ tags
ScatterTag(q) == q
GatherTag(q) == q + GatherTagOffset

\* ------------------------------------------------------------- transport
\* positions in queue q of the messages carrying `tag`
Matching(q, tag) == {i \in 1 .. Len(q) : q[i].tag = tag}

\* the first message of q carrying `tag` (MPI matches messages of one pair in order)
FirstMatch(q, tag) == CHOOSE i \in Matching(q, tag) : \A k \in Matching(q, tag) : i <= k

RemoveAt(q, i) == SubSeq(q, 1, i - 1) \o SubSeq(q, i + 1, Len(q))

\* net after comm.send(payload, dest = dst, tag = tag) by src
Posted(src, dst, tag, payload) ==
    [net EXCEPT ![<<src, dst>>] =
        Append(@, [tag |-> tag, payload |-> payload, call |-> run[src]])]

\* a send that returns at once whatever the library's mode
SendReturnsAlways(src, dst) == TRUE

\* a blocking send by src to dst returns: at once or later when the library buffers
\* the message, only after the message was received when it does not
SendReturns(src, dst) == sendMode = "buffered" \/ net[<<src, dst>>] = <<>>

\* comm.recv(source = src, tag = tag) on dst can return
CanRecv(src, dst, tag) == Matching(net[<<src, dst>>], tag) # {}

\* a receive that leaves the message it returns in the queue
ConsumedKeepsMessage(src, dst, tag) == net

Received(src, dst, tag) == net[<<src, dst>>][FirstMatch(net[<<src, dst>>], tag)].payload

Consumed(src, dst, tag) ==
    [net EXCEPT ![<<src, dst>>] = RemoveAt(@, FirstMatch(@, tag))]

Bump(kind, q) == [issued EXCEPT ![kind][q] = @ + 1]

\* ------------------------------------------------------------------ Init
InitCalls(sz, p) ==
    /\ size = sz[0]
    /\ num_procs = p
    /\ A = [r \in 0 .. (p - 1) |-> None]
    /\ B = [r \in 0 .. (p - 1) |-> None]
    /\ local_A = [r \in 0 .. (p - 1) |-> None]
    /\ local_rows = [r \in 0 .. (p - 1) |-> 0]
    /\ start_row = [r \in 0 .. (p - 1) |-> 0]
    /\ local_C = [r \in 0 .. (p - 1) |-> None]
    /\ C = None
    /\ proc = 0
    /\ ret = [r \in 0 .. (p - 1) |-> None]
    /\ net = [c \in (0 .. (p - 1)) \X (0 .. (p - 1)) |-> <<>>]
    /\ bcastBuf = [k \in Calls |-> None]
    /\ bcastEntered = [k \in Calls |-> {}]
    /\ barrierCnt = [r \in 0 .. (p - 1) |-> 0]
    /\ issued = [k \in {"scatter_send", "scatter_recv", "gather_send", "gather_recv"} |->
                    [r \in 0 .. (p - 1) |-> 0]]
    /\ scatterTags = {}
    /\ gatherTags = {}
    /\ run = [r \in 0 .. (p - 1) |-> 0]
    /\ rng = [r \in 0 .. (p - 1) |-> 0]
    /\ writes = <<>>
    /\ results = <<>>
    /\ verdict = [r \in 0 .. (p - 1) |-> None]
    /\ verify_C_serial = None
    /\ dots = [r \in 0 .. (p - 1) |-> 0]
    /\ sizes = sz

\* every call is made with the same size n
InitCall(n, p) == InitCalls([k \in Calls |-> n], p)

Init ==
    /\ caller \in {"direct", "benchmark"}
    /\ num_runs = 1
    /\ \E n \in 0 .. MaxSize, p \in 1 .. MaxProcs : InitCall(n, p)
    /\ sendMode \in {"rendezvous", "buffered"}
    /\ bcastMode \in {"sync", "async"}
    /\ pc = [r \in Ranks |-> IF caller = "benchmark" THEN "barrier" ELSE "init"]

\* --------------------------------------------------------------- actions
\* where a rank goes when a call and what closes it are behind it: round the
\* loop of its caller while calls remain
AfterRun(r) == IF run[r] + 1 < NumCalls THEN "loop" ELSE "done"

\* comm.Barrier(): the call is made ...
BarrierEnter(r) ==
    /\ pc[r] \in {"barrier", "barrier_end"}
    /\ barrierCnt' = [barrierCnt EXCEPT ![r] = @ + 1]
    /\ pc' = [pc EXCEPT ![r] = IF pc[r] = "barrier" THEN "barrier_wait" ELSE "barrier_end_wait"]
    /\ UNCHANGED <<size, num_procs, caller, sendMode, bcastMode, A, B, local_A,
                   local_rows, start_row, local_C, C, proc, ret, net, bcastBuf,
                   bcastEntered, issued, scatterTags, gatherTags,
                   num_runs, run, rng, writes, results, verdict, verify_C_serial, dots, sizes>>

\* a barrier that lets a rank through without waiting for the others
BarrierReturnsAtOnce(r) == TRUE

\* comm.Barrier() can return on rank r once every rank of the group has made
\* the call r is in
BarrierCanReturn(r) == \A q \in Ranks : barrierCnt[q] >= barrierCnt[r]

\* ... and returns once every rank of the group has made it
BarrierLeave(r) ==
    /\ pc[r] \in {"barrier_wait", "barrier_end_wait"}
    /\ BarrierCanReturn(r)
    /\ pc' = [pc EXCEPT ![r] = IF pc[r] = "barrier_wait" THEN "init" ELSE AfterRun(r)]
    /\ UNCHANGED <<size, num_procs, caller, sendMode, bcastMode, A, B, local_A,
                   local_rows, start_row, local_C, C, proc, ret, net, bcastBuf,
                   bcastEntered, barrierCnt, issued, scatterTags, gatherTags,
                   num_runs, run, rng, writes, results, verdict, verify_C_serial, dots, sizes>>

\* a generator that goes on from where it stands
SeedStartKeeps(pos) == pos

\* np.random.seed(42): the generator restarts the stream of the seed
SeedStart(pos) == 0

\* np.random.rand(r, c) raises on a negative dimension
RandOK(r, c) == r >= 0 /\ c >= 0

\* A, B = initialize_matrices(size, rank)
InitializeMatrices(r) ==
    /\ pc[r] = "init"
    /\ IF r = 0 /\ ~RandOK(CallSize(r), CallSize(r))
       THEN /\ rng' = [rng EXCEPT ![r] = SeedStart(@)]
            /\ pc' = [pc EXCEPT ![r] = "raised"]
            /\ UNCHANGED <<A, B>>
       ELSE /\ A' = [A EXCEPT ![r] = IF r = 0 THEN Rand(CallSize(r), CallSize(r), SeedStart(rng[r])) ELSE None]
            /\ B' = [B EXCEPT ![r] = IF r = 0
                                     THEN Rand(CallSize(r), CallSize(r), SeedStart(rng[r]) + CallSize(r) * CallSize(r))
                                     ELSE None]
            /\ rng' = [rng EXCEPT ![r] = IF r = 0 THEN SeedStart(@) + 2 * CallSize(r) * CallSize(r) ELSE @]
            /\ pc' = [pc EXCEPT ![r] = "bcast"]
    /\ UNCHANGED <<size, num_procs, caller, sendMode, bcastMode, local_A,
                   local_rows, start_row, local_C, C, proc, ret, net, bcastBuf,
                   bcastEntered, barrierCnt, issued, scatterTags, gatherTags,
                   num_runs, run, writes, results, verdict, verify_C_serial, dots, sizes>>

\* B = comm.bcast(B, root = 0): the call is made ...
BcastEnter(r) ==
    /\ pc[r] = "bcast"
    /\ bcastEntered' = [bcastEntered EXCEPT ![run[r]] = @ \cup {r}]
    /\ bcastBuf' = IF r = 0 THEN [bcastBuf EXCEPT ![run[r]] = B[r]] ELSE bcastBuf
    /\ pc' = [pc EXCEPT ![r] = "bcast_wait"]
    /\ UNCHANGED <<size, num_procs, caller, sendMode, bcastMode, A, B, local_A,
                   local_rows, start_row, local_C, C, proc, ret, net,
                   barrierCnt, issued, scatterTags, gatherTags,
                   num_runs, run, rng, writes, results, verdict, verify_C_serial, dots, sizes>>

\* a bcast whose result is dropped: the rank keeps the B it had
BcastKeepsOwn(r) == B[r]

\* the value comm.bcast returns on rank r: the value the root handed to it
BcastValue(r) == bcastBuf[run[r]]

\* a bcast that returns without waiting for the root
BcastReturnsAtOnce(r) == TRUE

\* comm.bcast can return on rank r once the root has called it (and, when the
\* library's bcast synchronises, once every rank has)
BcastCanReturn(r) ==
    /\ 0 \in bcastEntered[run[r]]
    /\ bcastMode = "sync" => bcastEntered[run[r]] = Ranks

\* ... and returns the root's value
BcastLeave(r) ==
    /\ pc[r] = "bcast_wait"
    /\ BcastCanReturn(r)
    /\ B' = [B EXCEPT ![r] = BcastValue(r)]
    /\ pc' = [pc EXCEPT ![r] = "plan"]
    /\ UNCHANGED <<size, num_procs, caller, sendMode, bcastMode, A, local_A,
                   local_rows, start_row, local_C, C, proc, ret, net, bcastBuf,
                   bcastEntered, barrierCnt, issued, scatterTags, gatherTags,
                   num_runs, run, rng, writes, results, verdict, verify_C_serial, dots, sizes>>

\* distribute_matrix_rows, lines 28-40: the rank's own row range and buffer
Plan(r) ==
    /\ pc[r] = "plan"
    /\ local_rows' = [local_rows EXCEPT ![r] = CalcLocalRows(CallSize(r), num_procs, r)]
    /\ start_row' = [start_row EXCEPT ![r] = CalcStartRow(CallSize(r), num_procs, r)]
    /\ local_A' = [local_A EXCEPT ![r] = Zeros(CalcLocalRows(CallSize(r), num_procs, r), CallSize(r))]
    /\ proc' = IF r = 0 THEN FirstWorker ELSE proc
    /\ pc' = [pc EXCEPT ![r] = IF r = 0 THEN "scatter" ELSE "distribute"]
    /\ UNCHANGED <<size, num_procs, caller, sendMode, bcastMode, A, B,
                   local_C, C, ret, net, bcastBuf,
                   bcastEntered, barrierCnt, issued, scatterTags, gatherTags,
                   num_runs, run, rng, writes, results, verdict, verify_C_serial, dots, sizes>>

\* root, scatter loop: comm.send(A[proc_start:proc_start + proc_rows], dest=proc, tag=proc)
ScatterSend ==
    /\ pc[0] = "scatter"
    /\ proc < num_procs
    /\ NonEmpty(ScatterProcRows(CallSize(0), num_procs, proc))
    /\ net' = Posted(0, proc, ScatterTag(proc),
                     Slice(A[0], ScatterProcStart(CallSize(0), num_procs, proc),
                           ScatterProcRows(CallSize(0), num_procs, proc)))
    /\ issued' = Bump("scatter_send", proc)
    /\ scatterTags' = scatterTags \cup {ScatterTag(proc)}
    /\ pc' = [pc EXCEPT ![0] = "scatter_wait"]
    /\ UNCHANGED <<size, num_procs, caller, sendMode, bcastMode, A, B, local_A,
                   local_rows, start_row, local_C, C, proc, ret, bcastBuf,
                   bcastEntered, barrierCnt, gatherTags,
                   num_runs, run, rng, writes, results, verdict, verify_C_serial, dots, sizes>>

\* root, scatter loop: the send returns and the loop goes on
ScatterSendReturn ==
    /\ pc[0] = "scatter_wait"
    /\ SendReturns(0, proc)
    /\ proc' = proc + 1
    /\ pc' = [pc EXCEPT ![0] = "scatter"]
    /\ UNCHANGED <<size, num_procs, caller, sendMode, bcastMode, A, B, local_A,
                   local_rows, start_row, local_C, C, ret, net, bcastBuf,
                   bcastEntered, barrierCnt, issued, scatterTags, gatherTags,
                   num_runs, run, rng, writes, results, verdict, verify_C_serial, dots, sizes>>

\* root, scatter loop: a rank with no rows is sent nothing
ScatterSkip ==
    /\ pc[0] = "scatter"
    /\ proc < num_procs
    /\ ~NonEmpty(ScatterProcRows(CallSize(0), num_procs, proc))
    /\ proc' = proc + 1
    /\ UNCHANGED <<size, num_procs, caller, sendMode, bcastMode, pc, A, B, local_A,
                   local_rows, start_row, local_C, C, ret, net, bcastBuf,
                   bcastEntered, barrierCnt, issued, scatterTags, gatherTags,
                   num_runs, run, rng, writes, results, verdict, verify_C_serial, dots, sizes>>

\* a root that moves its rows out of A instead of copying them
KeepLocalMovesRows ==
    /\ pc[0] = "scatter"
    /\ proc >= num_procs
    /\ local_A' = [local_A EXCEPT ![0] = Slice(A[0], start_row[0], local_rows[0])]
    /\ A' = [A EXCEPT ![0] = Assign(@, start_row[0], local_rows[0], Zeros(1, 1))]
    /\ pc' = [pc EXCEPT ![0] = "multiply"]
    /\ UNCHANGED <<size, num_procs, caller, sendMode, bcastMode, B,
                   local_rows, start_row, local_C, C, proc, ret, net, bcastBuf,
                   bcastEntered, barrierCnt, issued, scatterTags, gatherTags,
                   num_runs, run, rng, writes, results, verdict, verify_C_serial, dots, sizes>>

\* root, after the loop: local_A = A[start_row:start_row + local_rows].copy()
KeepLocal ==
    /\ pc[0] = "scatter"
    /\ proc >= num_procs
    /\ local_A' = [local_A EXCEPT ![0] = Slice(A[0], start_row[0], local_rows[0])]
    /\ pc' = [pc EXCEPT ![0] = "multiply"]
    /\ UNCHANGED <<size, num_procs, caller, sendMode, bcastMode, A, B,
                   local_rows, start_row, local_C, C, proc, ret, net, bcastBuf,
                   bcastEntered, barrierCnt, issued, scatterTags, gatherTags,
                   num_runs, run, rng, writes, results, verdict, verify_C_serial, dots, sizes>>

\* worker: if local_rows > 0, comm.recv(source=0, tag=rank) is called ...
DistributeRecv(r) ==
    /\ r # 0
    /\ pc[r] = "distribute"
    /\ NonEmpty(local_rows[r])
    /\ issued' = Bump("scatter_recv", r)
    /\ pc' = [pc EXCEPT ![r] = "distribute_wait"]
    /\ UNCHANGED <<size, num_procs, caller, sendMode, bcastMode, A, B, local_A,
                   local_rows, start_row, local_C, C, proc, ret, net, bcastBuf,
                   bcastEntered, barrierCnt, scatterTags, gatherTags,
                   num_runs, run, rng, writes, results, verdict, verify_C_serial, dots, sizes>>

\* ... and returns the root's message: local_A = comm.recv(source=0, tag=rank)
DistributeRecvReturn(r) ==
    /\ r # 0
    /\ pc[r] = "distribute_wait"
    /\ CanRecv(0, r, ScatterTag(r))
    /\ local_A' = [local_A EXCEPT ![r] = Received(0, r, ScatterTag(r))]
    /\ net' = Consumed(0, r, ScatterTag(r))
    /\ pc' = [pc EXCEPT ![r] = "multiply"]
    /\ UNCHANGED <<size, num_procs, caller, sendMode, bcastMode, A, B,
                   local_rows, start_row, local_C, C, proc, ret, bcastBuf,
                   bcastEntered, barrierCnt, issued, scatterTags, gatherTags,
                   num_runs, run, rng, writes, results, verdict, verify_C_serial, dots, sizes>>

\* worker with no rows: nothing is received
DistributeSkip(r) ==
    /\ r # 0
    /\ pc[r] = "distribute"
    /\ ~NonEmpty(local_rows[r])
    /\ pc' = [pc EXCEPT ![r] = "multiply"]
    /\ UNCHANGED <<size, num_procs, caller, sendMode, bcastMode, A, B, local_A,
                   local_rows, start_row, local_C, C, proc, ret, net, bcastBuf,
                   bcastEntered, barrierCnt, issued, scatterTags, gatherTags,
                   num_runs, run, rng, writes, results, verdict, verify_C_serial, dots, sizes>>

\* the value of local_C after lines 78-80
LocalProduct(r) ==
    IF NonEmpty(local_rows[r]) THEN Dot(local_A[r], B[r]) ELSE Zeros(local_rows[r], CallSize(r))

\* local_C = np.zeros((local_rows, size)); if local_rows > 0: local_C = np.dot(local_A, B)
Multiply(r) ==
    /\ pc[r] = "multiply"
    /\ IF NonEmpty(local_rows[r]) /\ ~DotOK(local_A[r], B[r])
       THEN /\ pc' = [pc EXCEPT ![r] = "raised"]
            /\ UNCHANGED local_C
       ELSE /\ local_C' = [local_C EXCEPT ![r] = LocalProduct(r)]
            /\ pc' = [pc EXCEPT ![r] = IF r = 0 THEN "gather_init" ELSE "gather_send"]
    /\ dots' = [dots EXCEPT ![r] = IF NonEmpty(local_rows[r]) THEN @ + 1 ELSE @]
    /\ UNCHANGED <<size, num_procs, caller, sendMode, bcastMode, A, B, local_A,
                   local_rows, start_row, C, proc, ret, net, bcastBuf,
                   bcastEntered, barrierCnt, issued, scatterTags, gatherTags,
                   num_runs, run, rng, writes, results, verdict, verify_C_serial, sizes>>

\* the record of who wrote which row of C, after the block of rank q was copied
\* into rows start .. start + cnt - 1
Wrote(w, start, cnt, q) ==
    [i \in DOMAIN w |-> IF start <= i /\ i < start + cnt THEN Append(w[i], q) ELSE w[i]]

\* root: C = np.zeros((size, size)); C[start_row:start_row + local_rows] = local_C
GatherInit ==
    /\ pc[0] = "gather_init"
    /\ IF AssignOK(Zeros(CallSize(0), CallSize(0)), start_row[0], local_rows[0], local_C[0])
       THEN /\ C' = Assign(Zeros(CallSize(0), CallSize(0)), start_row[0], local_rows[0], local_C[0])
            /\ writes' = Wrote([i \in 0 .. (CallSize(0) - 1) |-> <<>>], start_row[0], local_rows[0], 0)
            /\ proc' = FirstWorker
            /\ pc' = [pc EXCEPT ![0] = "gather"]
       ELSE /\ C' = Zeros(CallSize(0), CallSize(0))
            /\ writes' = [i \in 0 .. (CallSize(0) - 1) |-> <<>>]
            /\ pc' = [pc EXCEPT ![0] = "raised"]
            /\ UNCHANGED proc
    /\ UNCHANGED <<size, num_procs, caller, sendMode, bcastMode, A, B, local_A,
                   local_rows, start_row, local_C, ret, net, bcastBuf,
                   bcastEntered, barrierCnt, issued, scatterTags, gatherTags,
                   num_runs, run, rng, results, verdict, verify_C_serial, dots, sizes>>

\* root, gather loop: comm.recv(source=proc, tag=proc + 100) is called ...
GatherRecv ==
    /\ pc[0] = "gather"
    /\ proc < num_procs
    /\ NonEmpty(GatherProcRows(CallSize(0), num_procs, proc))
    /\ issued' = Bump("gather_recv", proc)
    /\ pc' = [pc EXCEPT ![0] = "gather_wait"]
    /\ UNCHANGED <<size, num_procs, caller, sendMode, bcastMode, A, B, local_A,
                   local_rows, start_row, local_C, C, proc, ret, net, bcastBuf,
                   bcastEntered, barrierCnt, scatterTags, gatherTags,
                   num_runs, run, rng, writes, results, verdict, verify_C_serial, dots, sizes>>

\* ... and returns: C[proc_start:proc_start + proc_rows] = received_data
GatherRecvReturn ==
    /\ pc[0] = "gather_wait"
    /\ CanRecv(proc, 0, GatherTag(proc))
    /\ net' = Consumed(proc, 0, GatherTag(proc))
    /\ IF AssignOK(C, GatherProcStart(CallSize(0), num_procs, proc),
                   GatherProcRows(CallSize(0), num_procs, proc), Received(proc, 0, GatherTag(proc)))
       THEN /\ C' = Assign(C, GatherProcStart(CallSize(0), num_procs, proc),
                           GatherProcRows(CallSize(0), num_procs, proc),
                           Received(proc, 0, GatherTag(proc)))
            /\ writes' = Wrote(writes, GatherProcStart(CallSize(0), num_procs, proc),
                               GatherProcRows(CallSize(0), num_procs, proc), proc)
            /\ proc' = proc + 1
            /\ pc' = [pc EXCEPT ![0] = "gather"]
       ELSE /\ pc' = [pc EXCEPT ![0] = "raised"]
            /\ UNCHANGED <<C, proc, writes>>
    /\ UNCHANGED <<size, num_procs, caller, sendMode, bcastMode, A, B, local_A,
                   local_rows, start_row, local_C, ret, bcastBuf,
                   bcastEntered, barrierCnt, issued, scatterTags, gatherTags,
                   num_runs, run, rng, results, verdict, verify_C_serial, dots, sizes>>

\* root, gather loop: nothing is received from a rank with no rows
GatherSkip ==
    /\ pc[0] = "gather"
    /\ proc < num_procs
    /\ ~NonEmpty(GatherProcRows(CallSize(0), num_procs, proc))
    /\ proc' = proc + 1
    /\ UNCHANGED <<size, num_procs, caller, sendMode, bcastMode, pc, A, B, local_A,
                   local_rows, start_row, local_C, C, ret, net, bcastBuf,
                   bcastEntered, barrierCnt, issued, scatterTags, gatherTags,
                   num_runs, run, rng, writes, results, verdict, verify_C_serial, dots, sizes>>

\* where a rank goes when mpi_matrix_multiply has returned
AfterCall(r) ==
    IF caller = "direct" THEN AfterRun(r)
    ELSE IF caller = "verify" /\ run[r] = 0 THEN "verify_compare"
    ELSE "barrier_end"

\* the value mpi_matrix_multiply returns on the root
RootResult == C

\* a worker that hands its block back to its caller
WorkerReturnsBlock(r) == local_C[r]

\* the value mpi_matrix_multiply returns on a worker
WorkerResult(r) == None

\* root, after the loop: return C
ReturnRoot ==
    /\ pc[0] = "gather"
    /\ proc >= num_procs
    /\ ret' = [ret EXCEPT ![0] = RootResult]
    /\ results' = Append(results, RootResult)
    /\ pc' = [pc EXCEPT ![0] = AfterCall(0)]
    /\ UNCHANGED <<size, num_procs, caller, sendMode, bcastMode, A, B, local_A,
                   local_rows, start_row, local_C, C, proc, net, bcastBuf,
                   bcastEntered, barrierCnt, issued, scatterTags, gatherTags,
                   num_runs, run, rng, writes, verdict, verify_C_serial, dots, sizes>>

\* worker: if local_rows > 0, comm.send(local_C, dest=0, tag=rank + 100)
GatherSend(r) ==
    /\ r # 0
    /\ pc[r] = "gather_send"
    /\ NonEmpty(local_rows[r])
    /\ net' = Posted(r, 0, GatherTag(r), local_C[r])
    /\ issued' = Bump("gather_send", r)
    /\ gatherTags' = gatherTags \cup {GatherTag(r)}
    /\ pc' = [pc EXCEPT ![r] = "gather_send_wait"]
    /\ UNCHANGED <<size, num_procs, caller, sendMode, bcastMode, A, B, local_A,
                   local_rows, start_row, local_C, C, proc, ret, bcastBuf,
                   bcastEntered, barrierCnt, scatterTags,
                   num_runs, run, rng, writes, results, verdict, verify_C_serial, dots, sizes>>

\* worker: the send returns; return None
GatherSendReturn(r) ==
    /\ r # 0
    /\ pc[r] = "gather_send_wait"
    /\ SendReturns(r, 0)
    /\ ret' = [ret EXCEPT ![r] = WorkerResult(r)]
    /\ pc' = [pc EXCEPT ![r] = AfterCall(r)]
    /\ UNCHANGED <<size, num_procs, caller, sendMode, bcastMode, A, B, local_A,
                   local_rows, start_row, local_C, C, proc, net, bcastBuf,
                   bcastEntered, barrierCnt, issued, scatterTags, gatherTags,
                   num_runs, run, rng, writes, results, verdict, verify_C_serial, dots, sizes>>

\* worker with no rows: nothing is sent; return None
ReturnWorker(r) ==
    /\ r # 0
    /\ pc[r] = "gather_send"
    /\ ~NonEmpty(local_rows[r])
    /\ ret' = [ret EXCEPT ![r] = WorkerResult(r)]
    /\ pc' = [pc EXCEPT ![r] = AfterCall(r)]
    /\ UNCHANGED <<size, num_procs, caller, sendMode, bcastMode, A, B, local_A,
                   local_rows, start_row, local_C, C, proc, net, bcastBuf,
                   bcastEntered, barrierCnt, issued, scatterTags, gatherTags,
                   num_runs, run, rng, writes, results, verdict, verify_C_serial, dots, sizes>>

\* the steps of mpi_matrix_multiply
CallStep ==
    \/ \E r \in Ranks : InitializeMatrices(r)
    \/ \E r \in Ranks : BcastEnter(r)
    \/ \E r \in Ranks : BcastLeave(r)
    \/ \E r \in Ranks : Plan(r)
    \/ ScatterSend
    \/ ScatterSendReturn
    \/ ScatterSkip
    \/ KeepLocal
    \/ \E r \in Ranks : DistributeRecv(r)
    \/ \E r \in Ranks : DistributeRecvReturn(r)
    \/ \E r \in Ranks : DistributeSkip(r)
    \/ \E r \in Ranks : Multiply(r)
    \/ GatherInit
    \/ GatherRecv
    \/ GatherRecvReturn
    \/ GatherSkip
    \/ ReturnRoot
    \/ \E r \in Ranks : GatherSend(r)
    \/ \E r \in Ranks : GatherSendReturn(r)
    \/ \E r \in Ranks : ReturnWorker(r)

Next ==
    \/ \E r \in Ranks : BarrierEnter(r)
    \/ \E r \in Ranks : BarrierLeave(r)
    \/ CallStep

Spec == Init /\ [][Next]_vars

\* the calls whose sends are rendezvous sends, scheduled fairly: as long as some
\* rank has a step to take, a step is taken
FairInit == Init /\ sendMode = "rendezvous"

FairSpec == FairInit /\ [][Next]_vars /\ WF_vars(Next)

\* one call made directly, under any of the library's modes, some rank that
\* can take a step always scheduled in the end
CallInit == Init /\ caller = "direct"

FairCallSpec == CallInit /\ [][CallStep]_vars /\ WF_vars(CallStep)

\* ------------------------------------------------- main: verify, then runs
\* Python values True and False
PyBool(b) == [bool |-> b]

\* a comparison that answers the opposite
AllCloseInverted(X, Y) == X # Y

\* np.allclose(X, Y, rtol=1e-10, atol=1e-10), elements being exact here
AllClose(X, Y) == X = Y

\* verify_correctness, lines 151-160: the root regenerates A and B from the seed
\* and forms C_serial = np.dot(A, B); every rank then calls mpi_matrix_multiply
VerifyBegin(r) ==
    /\ pc[r] = "verify"
    /\ IF r = 0 /\ ~RandOK(CallSize(r), CallSize(r))
       THEN /\ rng' = [rng EXCEPT ![r] = SeedStart(@)]
            /\ pc' = [pc EXCEPT ![r] = "raised"]
            /\ UNCHANGED verify_C_serial
       ELSE /\ verify_C_serial' =
                  IF r = 0
                  THEN Dot(Rand(CallSize(r), CallSize(r), SeedStart(rng[r])),
                           Rand(CallSize(r), CallSize(r), SeedStart(rng[r]) + CallSize(r) * CallSize(r)))
                  ELSE verify_C_serial
            /\ rng' = [rng EXCEPT ![r] = IF r = 0 THEN SeedStart(@) + 2 * CallSize(r) * CallSize(r) ELSE @]
            /\ pc' = [pc EXCEPT ![r] = "init"]
    /\ UNCHANGED <<size, num_procs, caller, sendMode, bcastMode, A, B, local_A,
                   local_rows, start_row, local_C, C, proc, ret, net, bcastBuf,
                   bcastEntered, barrierCnt, issued, scatterTags, gatherTags,
                   num_runs, run, writes, results, verdict, dots, sizes>>

\* verify_correctness, lines 162-173: the root compares and returns True or
\* False, every other rank returns None; main goes on to benchmark_mpi
VerifyCompare(r) ==
    /\ pc[r] = "verify_compare"
    /\ verdict' = [verdict EXCEPT ![r] = IF r = 0
                                         THEN PyBool(AllClose(verify_C_serial, ret[r]))
                                         ELSE None]
    /\ pc' = [pc EXCEPT ![r] = AfterRun(r)]
    /\ UNCHANGED <<size, num_procs, caller, sendMode, bcastMode, A, B, local_A,
                   local_rows, start_row, local_C, C, proc, ret, net, bcastBuf,
                   bcastEntered, barrierCnt, issued, scatterTags, gatherTags,
                   num_runs, run, rng, writes, results, verify_C_serial, dots, sizes>>

\* the caller's next call of mpi_matrix_multiply: a new frame, whose variables
\* are not yet bound; benchmark_mpi opens the run with a barrier
NextRun(r) ==
    /\ pc[r] = "loop"
    /\ run' = [run EXCEPT ![r] = @ + 1]
    /\ A' = [A EXCEPT ![r] = None]
    /\ B' = [B EXCEPT ![r] = None]
    /\ local_A' = [local_A EXCEPT ![r] = None]
    /\ local_rows' = [local_rows EXCEPT ![r] = 0]
    /\ start_row' = [start_row EXCEPT ![r] = 0]
    /\ local_C' = [local_C EXCEPT ![r] = None]
    /\ ret' = [ret EXCEPT ![r] = None]
    /\ C' = IF r = 0 THEN None ELSE C
    /\ proc' = IF r = 0 THEN 0 ELSE proc
    /\ writes' = IF r = 0 THEN <<>> ELSE writes
    /\ pc' = [pc EXCEPT ![r] = IF caller = "direct" THEN "init" ELSE "barrier"]
    /\ UNCHANGED <<size, num_procs, caller, sendMode, bcastMode, net, bcastBuf,
                   bcastEntered, barrierCnt, issued, scatterTags, gatherTags,
                   num_runs, rng, results, verdict, verify_C_serial, dots, sizes>>

\* main with --verify (verify_correctness, then benchmark_mpi) and benchmark_mpi
\* alone, each with MaxRuns timed runs of one size
MainInit ==
    /\ caller \in {"verify", "benchmark"}
    /\ num_runs = MaxRuns
    /\ \E n \in 0 .. MaxRunSize, p \in 1 .. MaxRunProcs : InitCall(n, p)
    /\ sendMode \in {"rendezvous", "buffered"}
    /\ bcastMode \in {"sync", "async"}
    /\ pc = [r \in Ranks |-> IF caller = "verify" THEN "verify" ELSE "barrier"]

MainNext ==
    \/ Next
    \/ \E r \in Ranks : VerifyBegin(r)
    \/ \E r \in Ranks : VerifyCompare(r)
    \/ \E r \in Ranks : NextRun(r)

MainSpec == MainInit /\ [][MainNext]_vars

\* ------------------------------------- calls in succession, no barrier
\* test_correctness: one call per entry of its list of sizes, each entry any
\* size, with nothing between the calls that synchronises the ranks.  The
\* library is taken at its two extremes: sends and broadcasts that complete as
\* late as MPI allows (every wait of the other modes is a wait here) and as
\* early as it allows (every interleaving of the other modes is one here).
SeqInit ==
    /\ caller = "direct"
    /\ num_runs = NumSeqCalls
    /\ \E sz \in [Calls -> 0 .. MaxSeqSize], p \in 1 .. MaxSeqProcs : InitCalls(sz, p)
    /\ \E m \in {<<"rendezvous", "sync">>, <<"buffered", "async">>} :
          sendMode = m[1] /\ bcastMode = m[2]
    /\ pc = [r \in Ranks |-> "init"]

SeqNext ==
    \/ CallStep
    \/ \E r \in Ranks : NextRun(r)

SeqSpec == SeqInit /\ [][SeqNext]_vars

\* ------------------------------------------- calls with any size argument
\* mpi_matrix_multiply takes whatever integer its caller passes as size: the
\* calls of Init and the calls made with a negative size
ConfigInit ==
    /\ caller \in {"direct", "benchmark"}
    /\ num_runs = 1
    /\ \E n \in (0 - MaxNegSize) .. MaxSize, p \in 1 .. MaxProcs : InitCall(n, p)
    /\ sendMode \in {"rendezvous", "buffered"}
    /\ bcastMode \in {"sync", "async"}
    /\ pc = [r \in Ranks |-> IF caller = "benchmark" THEN "barrier" ELSE "init"]

ConfigSpec == ConfigInit /\ [][Next]_vars

\* ------------------------------------------------ tags of large groups
\* One call seen from the root's two loops alone: the tags its scatter loop sends
\* with and the tags its gather loop receives with, for groups too large to
\* interleave.
TagInit ==
    /\ size \in 0 .. MaxTagSize
    /\ num_procs \in 1 .. MaxTagProcs
    /\ caller = "direct"
    /\ sendMode = "rendezvous"
    /\ bcastMode = "sync"
    /\ pc = [r \in {0} |-> "tags"]
    /\ A = <<>> /\ B = <<>> /\ local_A = <<>> /\ local_rows = <<>> /\ start_row = <<>>
    /\ local_C = <<>> /\ C = None /\ proc = 0 /\ ret = <<>> /\ net = <<>>
    /\ bcastBuf = <<>> /\ bcastEntered = <<>> /\ barrierCnt = <<>> /\ issued = <<>>
    /\ scatterTags = {}
    /\ gatherTags = {}
    /\ num_runs = 1 /\ run = <<>> /\ rng = <<>> /\ writes = <<>> /\ results = <<>>
    /\ verdict = <<>> /\ verify_C_serial = None /\ dots = <<>> /\ sizes = <<>>

\* the tag of every send of the scatter loop (line 53) and of every receive of the
\* gather loop (line 99)
TagScan ==
    /\ pc[0] = "tags"
    /\ scatterTags' = {ScatterTag(q) : q \in {w \in 1 .. (num_procs - 1) :
                            NonEmpty(ScatterProcRows(size, num_procs, w))}}
    /\ gatherTags' = {GatherTag(q) : q \in {w \in 1 .. (num_procs - 1) :
                            NonEmpty(GatherProcRows(size, num_procs, w))}}
    /\ pc' = [pc EXCEPT ![0] = "tagged"]
    /\ UNCHANGED <<size, num_procs, caller, sendMode, bcastMode, A, B, local_A,
                   local_rows, start_row, local_C, C, proc, ret, net, bcastBuf,
                   bcastEntered, barrierCnt, issued,
                   num_runs, run, rng, writes, results, verdict, verify_C_serial, dots, sizes>>

TagNext == TagScan

TagSpec == TagInit /\ [][TagNext]_vars

\* ------------------------------------------------------------ positions
\* rank r has computed its row range (lines 28-40 are behind it)
Planned(r) ==
    pc[r] \notin {"verify", "barrier", "barrier_wait", "init", "bcast", "bcast_wait", "plan",
                  "tags", "tagged"}

\* mpi_matrix_multiply has returned on rank r
Returned(r) == pc[r] \in {"verify_compare", "barrier_end", "barrier_end_wait", "loop", "done"}

\* comm.bcast has returned on rank r in its current call
PastBcast(r) ==
    pc[r] \notin {"verify", "barrier", "barrier_wait", "init", "bcast", "bcast_wait",
                  "tags", "tagged"}

\* lines 78-80 are behind rank r in its current call
Multiplied(r) ==
    pc[r] \in {"gather_init", "gather", "gather_wait", "gather_send", "gather_send_wait",
               "verify_compare", "barrier_end", "barrier_end_wait", "loop", "done"}

\* rank r has gone on from the broadcast in its current call: it has issued a
\* scatter send (root) or a scatter receive (worker), or lines 78-80 are behind it
Proceeded(r) ==
    \/ r = 0 /\ pc[0] = "scatter_wait"
    \/ r = 0 /\ \E q \in Ranks : issued["scatter_send"][q] > run[0]
    \/ r # 0 /\ issued["scatter_recv"][r] > run[r]
    \/ Multiplied(r)

\* distribute_matrix_rows has returned on rank r in its current call
Distributed(r) == pc[r] = "multiply" \/ Multiplied(r)

\* the rank whose row range (lines 28-37) holds row i
Owner(i) ==
    CHOOSE r \in Ranks :
        /\ CalcStartRow(size, num_procs, r) <= i
        /\ i < CalcStartRow(size, num_procs, r) + CalcLocalRows(size, num_procs, r)

\* rank r is inside mpi_matrix_multiply with lines 69 behind it, or has returned
InCall(r) ==
    pc[r] \notin {"verify", "barrier", "barrier_wait", "init", "tags", "tagged", "raised"}

\* rank r has taken part in a broadcast, a send or a receive of its current call
Communicated(r) ==
    \/ r \in bcastEntered[run[r]]
    \/ r = 0 /\ \E q \in Ranks : issued["scatter_send"][q] + issued["gather_recv"][q] > 0
    \/ r # 0 /\ issued["scatter_recv"][r] + issued["gather_send"][r] > 0

\* an exception has ended the call on rank r
Aborted(r) == pc[r] = "raised"

\* the timed run of benchmark_mpi rank r is in, numbered from 0 (negative while
\* main is still in verify_correctness)
BenchRun(r) == run[r] - (IF caller = "verify" THEN 1 ELSE 0)

\* rank r has passed the opening barrier of the run it is in
PastOpening(r) == BenchRun(r) >= 0 /\ pc[r] \notin {"barrier", "barrier_wait"}

\* rank r has passed the closing barrier of the run it is in
PastClosing(r) == BenchRun(r) >= 0 /\ pc[r] \in {"loop", "done"}

\* rank q has finished its mpi_matrix_multiply of timed run j
FinishedRun(q, j) == BenchRun(q) > j \/ (BenchRun(q) = j /\ Returned(q))

\* verify_correctness has returned on rank r
VerifyReturned(r) ==
    /\ caller = "verify"
    /\ run[r] > 0 \/ pc[r] \in {"loop", "done"}

\* the root's receive of worker q's result block has returned in the root's
\* current call
GatherReceived(q) ==
    /\ issued["gather_recv"][q] > run[0]
    /\ ~(pc[0] = "gather_wait" /\ proc = q)

\* the workers below q that have rows
LowerWorkers(q) == {w \in 1 .. (q - 1) : CalcLocalRows(size, num_procs, w) > 0}

\* number of sends / receives of one kind issued so far, over all peers
IssuedTotal(kind) == SumTo(issued[kind], num_procs)

\* the root's scatter loop (lines 44-53) is behind it
ScatterLoopDone ==
    pc[0] \in {"multiply", "gather_init", "gather", "gather_wait"} \/ Returned(0)

\* the message the receive rank dst is blocked in would take now
Taken(src, dst, tag) == net[<<src, dst>>][FirstMatch(net[<<src, dst>>], tag)]

\* the statements in the order the code reaches them: a fixed part, and the
\* number of passes of a loop over the ranks that lie before the statement
PositionFixed ==
    [verify |-> 0, barrier |-> 1, barrier_wait |-> 2, init |-> 3, bcast |-> 4,
     bcast_wait |-> 5, plan |-> 6, distribute |-> 7, distribute_wait |-> 8,
     scatter |-> 7, scatter_wait |-> 8, multiply |-> 10, gather_init |-> 11,
     gather_send |-> 11, gather_send_wait |-> 12, gather |-> 12, gather_wait |-> 13,
     verify_compare |-> 14, barrier_end |-> 14, barrier_end_wait |-> 15,
     loop |-> 16, done |-> 16, raised |-> 17]

PositionPerRank ==
    [verify |-> 0, barrier |-> 0, barrier_wait |-> 0, init |-> 0, bcast |-> 0,
     bcast_wait |-> 0, plan |-> 0, distribute |-> 0, distribute_wait |-> 0,
     scatter |-> 0, scatter_wait |-> 0, multiply |-> 2, gather_init |-> 2,
     gather_send |-> 2, gather_send_wait |-> 2, gather |-> 2, gather_wait |-> 2,
     verify_compare |-> 4, barrier_end |-> 4, barrier_end_wait |-> 4,
     loop |-> 4, done |-> 4, raised |-> 4]

\* how far rank r is along the statements of its caller and of
\* mpi_matrix_multiply: calls behind it first, then the position in the call,
\* the root's two loops counted by their loop variable
Position(r) ==
    PositionFixed[pc[r]] + PositionPerRank[pc[r]] * num_procs
        + (IF pc[r] \in {"scatter", "scatter_wait", "gather", "gather_wait"} THEN 2 * proc ELSE 0)

Progress == SumTo([r \in Ranks |-> run[r] * (18 + 4 * num_procs) + Position(r)], num_procs)

\* the most Progress can be: every rank at the end of its last call
ProgressMax == num_procs * (NumCalls * (18 + 4 * num_procs))

AllPlanned == \A r \in Ranks : Planned(r)
AllReturned == \A r \in Ranks : Returned(r)
AllDone == \A r \in Ranks : pc[r] = "done"

\* the single-process reference: test_correctness regenerates A and B from the
\* same seed and multiplies them serially
C_serial == serial_matrix_multiply(Rand(size, size, 0), Rand(size, size, size * size))

\* the same reference for a call of size n
SerialProduct(n) == serial_matrix_multiply(Rand(n, n, 0), Rand(n, n, n * n))

\* the serial products of the sizes the successive calls draw from
SerialProducts == [n \in 0 .. MaxSeqSize |-> SerialProduct(n)]

\* ---------------------------------------------------------------- claims
\* C1: whenever mpi_matrix_multiply has returned on the root, whatever the
\* interleaving of the ranks, the returned matrix is the single-process product
\* of the same A and B: it has size rows and row i is row i of A times B.
C1_RootResultIsProduct ==
    Returned(0) =>
        /\ ret[0] = C_serial
        /\ \A i \in 0 .. (size - 1) : ret[0].data[i] = C_serial.data[i]

\* C1 witness: the root has returned a 5 x 5 product assembled from three
\* unequal row blocks.
C1_Witness ==
    /\ AllDone /\ size = 5 /\ num_procs = 3
    /\ ret[0] = C_serial
    /\ ret[0] # Zeros(size, size)

\* C2: the row ranges the ranks compute are contiguous in rank order (rank 0
\* starts at row 0, rank r+1 starts where rank r ends), pairwise disjoint, and
\* their row counts sum to size.
C2_RangesPartitionRows ==
    /\ Planned(0) => start_row[0] = 0
    /\ \A r \in Ranks : Planned(r) => local_rows[r] >= 0
    /\ \A r \in Ranks : (r + 1 \in Ranks /\ Planned(r) /\ Planned(r + 1)) =>
            start_row[r + 1] = start_row[r] + local_rows[r]
    /\ \A r, q \in Ranks : (r # q /\ Planned(r) /\ Planned(q)) =>
            (start_row[r] .. (start_row[r] + local_rows[r] - 1))
                \cap (start_row[q] .. (start_row[q] + local_rows[q] - 1)) = {}
    /\ AllPlanned =>
            /\ SumTo(local_rows, num_procs) = size
            /\ UNION {start_row[r] .. (start_row[r] + local_rows[r] - 1) : r \in Ranks}
                   = 0 .. (size - 1)

\* C2 witness: three ranks have computed their ranges for 5 rows.
C2_Witness == AllPlanned /\ size = 5 /\ num_procs = 3 /\ local_rows[2] = 1

\* C3: with base = size div num_procs and rem = size mod num_procs, exactly the
\* ranks 0..rem-1 hold base+1 rows and every other rank base rows, rank r starts
\* at r*(base+1) if r < rem and at rem*(base+1) + (r-rem)*base otherwise; 5 rows
\* over 3 ranks gives rows 0-1, 2-3 and 4.
C3_RemainderDistribution ==
    LET base == size \div num_procs
        rem  == size % num_procs
    IN  /\ AllPlanned =>
              /\ {r \in Ranks : local_rows[r] = base + 1} = 0 .. (rem - 1)
              /\ {r \in Ranks : local_rows[r] = base} = rem .. (num_procs - 1)
        /\ \A r \in Ranks : Planned(r) =>
              start_row[r] = IF r < rem THEN r * (base + 1)
                                        ELSE rem * (base + 1) + (r - rem) * base
        /\ (AllPlanned /\ size = 5 /\ num_procs = 3) =>
              /\ start_row = [r \in 0 .. 2 |-> IF r = 0 THEN 0 ELSE IF r = 1 THEN 2 ELSE 4]
              /\ local_rows = [r \in 0 .. 2 |-> IF r = 2 THEN 1 ELSE 2]

\* C3 witness: the 5-rows-over-3-ranks scenario has been planned by every rank.
C3_Witness == AllPlanned /\ size = 5 /\ num_procs = 3 /\ start_row[1] = 2 /\ start_row[2] = 4

\* C4: with rendezvous sends, under fair scheduling of the ranks, every rank
\* eventually reaches its return statement (and, in a benchmark run, the end of
\* the run): no rank stays blocked for ever in bcast, send or recv.
C4_EveryRankReturns == <>AllDone

\* C4 witness: a rendezvous call over three ranks, each with rows, has ended
\* after two scatter and two gather transfers.
C4_Witness ==
    /\ AllDone /\ sendMode = "rendezvous" /\ bcastMode = "sync" /\ num_procs = 3 /\ size = 4
    /\ issued["scatter_send"][2] = 1 /\ issued["gather_recv"][2] = 1

\* the root's scatter loop has dealt with rank q (sent to it or skipped it)
RootPastScatter(q) ==
    \/ pc[0] = "scatter" /\ proc > q
    \/ pc[0] = "scatter_wait" /\ proc >= q
    \/ pc[0] \in {"multiply", "gather_init", "gather", "gather_wait"}
    \/ Returned(0)

\* rank q has decided whether to receive its block
WorkerPastDistribute(q) == Planned(q) /\ pc[q] # "distribute"

\* the root's gather loop has dealt with rank q (called recv for it or skipped it)
RootPastGather(q) ==
    \/ pc[0] = "gather" /\ proc > q
    \/ pc[0] = "gather_wait" /\ proc >= q
    \/ Returned(0)

\* rank q has decided whether to send its result block
WorkerPastGather(q) == pc[q] = "gather_send_wait" \/ Returned(q)

\* C5: in each phase the two sides of a transfer take the same decision: root
\* sends a block to worker q exactly when q calls its one receive, and worker q
\* sends its result exactly when root calls a receive for q, both exactly when
\* q's row count is positive; nothing is sent to or received from the root itself,
\* no transfer is issued twice, and no message is left over at the end.
C5_SendsMatchReceives ==
    /\ \A k \in DOMAIN issued : \A q \in Ranks : issued[k][q] <= 1
    /\ \A k \in DOMAIN issued : issued[k][0] = 0
    /\ \A q \in Ranks \ {0} :
          /\ (RootPastScatter(q) /\ WorkerPastDistribute(q)) =>
                /\ issued["scatter_send"][q] = issued["scatter_recv"][q]
                /\ issued["scatter_send"][q] = 1 <=> local_rows[q] > 0
          /\ (RootPastGather(q) /\ WorkerPastGather(q)) =>
                /\ issued["gather_send"][q] = issued["gather_recv"][q]
                /\ issued["gather_send"][q] = 1 <=> local_rows[q] > 0
    /\ AllReturned => \A c \in DOMAIN net : net[c] = <<>>

\* C5 witness: a finished call in which rank 1 was sent a block and sent one
\* back, and rank 2, with no rows, was skipped on both sides.
C5_Witness ==
    /\ AllDone /\ num_procs = 3 /\ size = 2
    /\ issued["scatter_send"][1] = 1 /\ issued["scatter_recv"][1] = 1
    /\ issued["gather_send"][1] = 1 /\ issued["gather_recv"][1] = 1
    /\ issued["scatter_send"][2] = 0 /\ issued["gather_recv"][2] = 0

\* C6: when the call has returned, the root holds a size x size matrix and
\* every other rank holds no result.
C6_RootReturnsMatrixOthersNone ==
    \A r \in Ranks : Returned(r) =>
        IF r = 0
        THEN /\ ret[0] # None
             /\ ret[0].rows = size /\ ret[0].cols = size
             /\ DOMAIN ret[0].data = 0 .. (size - 1)
             /\ \A i \in 0 .. (size - 1) : DOMAIN ret[0].data[i] = 0 .. (size - 1)
        ELSE ret[r] = None

\* C6 witness: a call over three ranks with rows on each has returned everywhere.
C6_Witness ==
    /\ AllDone /\ num_procs = 3 /\ size = 4
    /\ local_C[1].rows = 1 /\ ret[1] = None /\ ret[0].rows = 4

\* C7: with fewer rows than ranks, exactly the last num_procs - size ranks are
\* assigned no rows, and no rank raises an error.
C7_LastRanksEmpty ==
    size < num_procs =>
        /\ \A r \in Ranks : pc[r] # "raised"
        /\ \A r \in Ranks : Planned(r) =>
              /\ local_rows[r] = 0 <=> r >= size
              /\ local_rows[r] = 0 => local_A[r] = Zeros(0, size)
        /\ AllPlanned =>
              {r \in Ranks : local_rows[r] = 0} = (num_procs - (num_procs - size)) .. (num_procs - 1)

\* C7 witness: one row over three ranks; ranks 1 and 2 end with nothing.
C7_Witness ==
    /\ AllDone /\ size = 1 /\ num_procs = 3
    /\ local_rows[0] = 1 /\ local_rows[1] = 0 /\ local_rows[2] = 0

\* C8: with fewer rows than ranks, a rank with no rows still takes part in the
\* broadcast of B and in the caller's two barriers, is neither sent nor receives
\* a scatter message, neither sends nor has received a gather message, and the
\* root's result still has size rows.
C8_EmptyRanksOnlyCollectives ==
    size < num_procs =>
        /\ \A r \in Ranks : (Planned(r) /\ local_rows[r] = 0) =>
              /\ r \in bcastEntered[run[r]] /\ B[r] = B[0]
              /\ \A k \in DOMAIN issued : issued[k][r] = 0
              /\ \A c \in {<<0, r>>, <<r, 0>>} : net[c] = <<>>
              /\ (caller = "benchmark" /\ pc[r] = "done") => barrierCnt[r] = 2
        /\ Returned(0) => ret[0].rows = size

\* C8 witness: a benchmark run of 2 rows over 3 ranks has ended; rank 2 had no
\* rows, called bcast and both barriers, and exchanged no message.
C8_Witness ==
    /\ AllDone /\ caller = "benchmark" /\ size = 2 /\ num_procs = 3
    /\ local_rows[2] = 0 /\ 2 \in bcastEntered[run[2]] /\ barrierCnt[2] = 2
    /\ issued["scatter_recv"][2] = 0 /\ issued["scatter_recv"][1] = 1

\* C9: a group of one rank assigns it every row, issues no send and no receive,
\* and returns the product of the full A and B.
C9_SingleRank ==
    num_procs = 1 =>
        /\ Planned(0) => (start_row[0] = 0 /\ local_rows[0] = size)
        /\ \A k \in DOMAIN issued : issued[k][0] = 0
        /\ net[<<0, 0>>] = <<>>
        /\ pc[0] \in {"gather_init", "gather"} \/ Returned(0) => local_C[0] = Dot(A[0], B[0])
        /\ Returned(0) => ret[0] = Dot(A[0], B[0])

\* C9 witness: the single rank has returned a 3 x 3 product.
C9_Witness ==
    /\ num_procs = 1 /\ pc[0] = "done" /\ size = 3
    /\ local_A[0] = A[0] /\ ret[0] = Dot(A[0], B[0]) /\ ret[0] # Zeros(3, 3)

\* C10: scatter tags are keyed by the destination rank, gather tags by the
\* source rank, and for every group size the tags of the scatter phase are
\* disjoint from the tags of the gather phase.
C10_TagSetsDisjoint ==
    /\ scatterTags \subseteq 1 .. (num_procs - 1)
    /\ \A t \in gatherTags : t - GatherTagOffset \in 1 .. (num_procs - 1)
    /\ scatterTags \cap gatherTags = {}

\* C11: once the broadcast has returned on a rank (the root, a worker, a rank
\* with an empty row block alike) the rank's B is a matrix, the root's B, the
\* value the root handed to the broadcast; and the block a rank has computed is
\* its rows of A times that B (no product is formed by a rank without rows).
C11_EveryRankHoldsRootB ==
    \A r \in Ranks :
        /\ PastBcast(r) => B[r] # None /\ B[r] = B[0] /\ B[r] = bcastBuf[run[r]]
        /\ Multiplied(r) =>
              local_C[r] = IF local_rows[r] > 0 THEN Dot(local_A[r], B[0])
                           ELSE Zeros(0, size)

C11_Witness ==
    /\ num_procs = 3 /\ size = 2
    /\ PastBcast(2) /\ local_rows[2] = 0 /\ pc[2] = "gather_send" /\ B[2] = B[0]
    /\ Multiplied(1) /\ local_rows[1] = 1 /\ local_C[1] = Dot(local_A[1], B[0])
    /\ Multiplied(0)

\* C12: no rank issues a scatter send or receive, or starts its local multiply,
\* until it has itself received B from the broadcast, which in turn needs the
\* root to have called the broadcast; when the library's bcast synchronises,
\* every rank has by then at least called it.  Other ranks may still be before
\* or inside their own broadcast call.
C12_NoRankProceedsBeforeItsB ==
    \A r \in Ranks :
        Proceeded(r) =>
            /\ PastBcast(r)
            /\ 0 \in bcastEntered[run[r]]
            /\ B[r] # None /\ B[r] = bcastBuf[run[r]]
            /\ bcastMode = "sync" => bcastEntered[run[r]] = Ranks

C12_Witness ==
    /\ num_procs = 3 /\ size = 3 /\ bcastMode = "async"
    /\ issued["scatter_send"][1] = 1 /\ Proceeded(0)
    /\ pc[1] = "distribute_wait" /\ Proceeded(1)
    /\ pc[2] = "init"

\* C12 as stated: the broadcast is a synchronisation point, no rank goes on to
\* the scatter or to its multiply until every rank of the group has received B.
C12_BcastIsSyncPoint ==
    \A r \in Ranks : Proceeded(r) => \A q \in Ranks : PastBcast(q)

\* C16: once distribute_matrix_rows has returned on a rank with a non-empty
\* range, its local_A is rows start_row .. start_row + local_rows - 1 of the
\* root's A, in order.  The root's loop sends exactly one block to every other
\* rank with a non-empty range and none to a rank with an empty one; the root
\* copies its own block and neither sends to nor receives from itself.
C16_EachRankHoldsItsRows ==
    /\ \A r \in Ranks :
          (Distributed(r) /\ local_rows[r] > 0) =>
              /\ local_A[r].rows = local_rows[r] /\ local_A[r].cols = size
              /\ \A i \in 0 .. (local_rows[r] - 1) :
                    local_A[r].data[i] = A[0].data[start_row[r] + i]
    /\ \A q \in Ranks \ {0} :
          RootPastScatter(q) =>
              issued["scatter_send"][q] = IF CalcLocalRows(size, num_procs, q) > 0 THEN 1 ELSE 0
    /\ issued["scatter_send"][0] = 0 /\ issued["scatter_recv"][0] = 0
    /\ net[<<0, 0>>] = <<>>

C16_Witness ==
    /\ num_procs = 3 /\ size = 5
    /\ \A r \in Ranks : Distributed(r)
    /\ local_A[0] = Slice(A[0], 0, 2) /\ local_A[1] = Slice(A[0], 2, 2)
    /\ local_A[2] = Slice(A[0], 4, 1)
    /\ local_A[1] # local_A[0]
    /\ issued["scatter_send"][1] = 1 /\ issued["scatter_send"][2] = 1

\* C17: while the root gathers, no row of C is written twice and a written row
\* was written from the block of the rank that owns it; when the call has
\* returned on the root, every row of C in 0 .. size - 1 has been written
\* exactly once, by its owner, and holds the owner's row of its result block
\* (the root's own block copied directly, the others as received).
C17_EveryRowWrittenOnceByOwner ==
    /\ \A i \in DOMAIN writes :
          /\ Len(writes[i]) <= 1
          /\ writes[i] # <<>> => writes[i][1] = Owner(i)
    /\ Returned(0) =>
          /\ DOMAIN writes = 0 .. (size - 1)
          /\ \A i \in 0 .. (size - 1) :
                /\ writes[i] = <<Owner(i)>>
                /\ C.data[i] = local_C[Owner(i)].data[i - start_row[Owner(i)]]

C17_Witness ==
    /\ num_procs = 3 /\ size = 5 /\ Returned(0)
    /\ writes = [i \in 0 .. 4 |-> IF i < 2 THEN <<0>> ELSE IF i < 4 THEN <<1>> ELSE <<2>>]
    /\ C.data[4] = local_C[2].data[0]
    /\ issued["gather_recv"][1] = 1 /\ issued["gather_recv"][2] = 1

\* C18: from initialize_matrices to the end of the call the root's A and B do
\* not change, and at the end they are the matrices that were generated; a step
\* of one rank (a write to its row block, its B, its result block, or the root's
\* write to C) leaves the data of every other rank as it was.
C18_InputsReadOnlyByValue ==
    /\ [](Returned(0) =>
            A[0] = Rand(size, size, 0) /\ B[0] = Rand(size, size, size * size))
    /\ [][/\ (InCall(0) /\ InCall(0)') => (A'[0] = A[0] /\ B'[0] = B[0])
          /\ \A r \in Ranks :
                (pc'[r] = pc[r] /\ (r = 0 => proc' = proc)) =>
                    /\ A'[r] = A[r] /\ B'[r] = B[r]
                    /\ local_A'[r] = local_A[r] /\ local_C'[r] = local_C[r]
                    /\ ret'[r] = ret[r]
                    /\ r = 0 => C' = C]_vars

C18_Witness ==
    /\ num_procs = 3 /\ size = 4 /\ AllReturned
    /\ A[0] = Rand(size, size, 0) /\ B[0] = Rand(size, size, size * size)
    /\ local_A[1] = Slice(A[0], 2, 1) /\ B[1] = B[0]
    /\ local_C[1] = Dot(local_A[1], B[1]) /\ C.data[2] = local_C[1].data[0]

\* C14 as stated: in a call made with a negative size no rank takes part in a
\* broadcast, a send or a receive.
C14_InvalidSizeNoCommunication ==
    size < 0 => \A r \in Ranks : ~Communicated(r)

\* C15 as stated: when a call made with a negative size has come to rest (no rank
\* has a step left) and one rank has aborted it, every rank has aborted it; none
\* is left inside a broadcast, a send or a receive.
C15_AllRanksAbortTogether ==
    (size < 0 /\ ~ENABLED Next /\ \E r \in Ranks : Aborted(r)) =>
        \A q \in Ranks : Aborted(q)

\* C13: every call of a sequence of calls with the same size and the same group
\* returns the same matrix on the root: the first call's result, which is the
\* serial product of the seeded A and B whatever the interleaving of the ranks
\* and whatever the earlier calls left behind.
C13_RepeatedCallsAgree ==
    \A i \in 1 .. Len(results) :
        /\ results[i] = results[1]
        /\ results[i] = C_serial

C13_Witness ==
    /\ caller = "benchmark" /\ num_procs = 2 /\ size = 3
    /\ Len(results) = 2 /\ results[2] = results[1]
    /\ run[0] = 1 /\ run[1] = 1 /\ AllDone
    /\ results[1] # Zeros(size, size)

\* C19: in benchmark_mpi a rank is past the opening barrier of its run j only
\* when every rank has called that barrier (2j + 1 calls), and past the closing
\* barrier only when every rank has called it (2j + 2 calls) and has finished
\* its multiply of run j; at the end all ranks have made the same number of
\* barrier calls, two per run; and a message still unreceived belongs to the
\* call its receiver is in, so no two unreceived messages of one sender to one
\* receiver carry the same tag.
C19_RunsDelimitedByBarriers ==
    /\ \A r \in Ranks :
          /\ PastOpening(r) => \A q \in Ranks : barrierCnt[q] >= 2 * BenchRun(r) + 1
          /\ PastClosing(r) =>
                \A q \in Ranks : /\ barrierCnt[q] >= 2 * BenchRun(r) + 2
                                 /\ FinishedRun(q, BenchRun(r))
    /\ AllDone => \A r \in Ranks : barrierCnt[r] = 2 * num_runs
    /\ \A c \in DOMAIN net :
          /\ \A i \in 1 .. Len(net[c]) : net[c][i].call = run[c[2]]
          /\ \A i, k \in 1 .. Len(net[c]) : net[c][i].tag = net[c][k].tag => i = k

C19_Witness ==
    /\ caller = "benchmark" /\ num_procs = 2 /\ size = 2 /\ sendMode = "buffered"
    /\ BenchRun(0) = 1 /\ BenchRun(1) = 1 /\ barrierCnt = [r \in Ranks |-> 3]
    /\ net[<<0, 1>>] # <<>> /\ net[<<0, 1>>][1].tag = ScatterTag(1)
    /\ issued["scatter_send"][1] = 2 /\ issued["scatter_recv"][1] = 1
    /\ Len(results) = 1

\* C20: when verify_correctness has returned on a rank, the rank has taken part
\* in the distributed call; on the root the value returned is True or False,
\* True exactly when the matrix the distributed call returned is the serial
\* product of the seeded A and B; on every other rank it is None; and a rank on
\* which it has returned has not been stopped by an exception, whatever the
\* verdict: it goes on to the benchmark.
C20_VerifyComparesOnRoot ==
    \A r \in Ranks :
        /\ VerifyReturned(r) =>
              /\ r \in bcastEntered[0]
              /\ r = 0 => /\ verdict[0] \in {PyBool(TRUE), PyBool(FALSE)}
                          /\ verdict[0] = PyBool(TRUE) <=> results[1] = C_serial
                          /\ verify_C_serial = C_serial
              /\ r # 0 => verdict[r] = None
              /\ ~Aborted(r)
        /\ ~VerifyReturned(r) => verdict[r] = None

C20_Witness ==
    /\ caller = "verify" /\ num_procs = 2 /\ size = 3 /\ AllDone
    /\ \A r \in Ranks : VerifyReturned(r) /\ run[r] = num_runs
    /\ verdict[0] = PyBool(TRUE) /\ verdict[1] = None
    /\ results[1] = verify_C_serial /\ Len(results) = num_runs + 1

\* C21: for every rank p other than the root, the row range the root's scatter
\* loop computes for p, the one the root's gather loop computes for p and the
\* one p has computed for itself are the same (start and count); the three are
\* functions of size, num_procs and p alone.
C21_PartitionDerivationsAgree ==
    \A p \in Ranks \ {0} :
        /\ ScatterProcStart(size, num_procs, p) = GatherProcStart(size, num_procs, p)
        /\ ScatterProcRows(size, num_procs, p) = GatherProcRows(size, num_procs, p)
        /\ Planned(p) =>
              /\ start_row[p] = ScatterProcStart(size, num_procs, p)
              /\ local_rows[p] = ScatterProcRows(size, num_procs, p)
              /\ start_row[p] = GatherProcStart(size, num_procs, p)
              /\ local_rows[p] = GatherProcRows(size, num_procs, p)

C21_Witness ==
    /\ num_procs = 3 /\ size = 5 /\ AllReturned
    /\ start_row[2] = 4 /\ local_rows[2] = 1
    /\ start_row[1] = 2 /\ local_rows[1] = 2
    /\ issued["scatter_send"][2] = 1 /\ issued["gather_recv"][2] = 1

\* C22: when lines 78-80 are behind a rank, a rank with no rows holds a 0 x size
\* result block and has made no call of np.dot; a rank with rows holds a block
\* of local_rows rows and size columns and has made exactly one call.
C22_ResultBlockShape ==
    \A r \in Ranks :
        /\ Multiplied(r) =>
              /\ local_C[r].rows = local_rows[r] /\ local_C[r].cols = size
              /\ DOMAIN local_C[r].data = 0 .. (local_rows[r] - 1)
              /\ local_rows[r] = 0 => local_C[r] = Zeros(0, size) /\ dots[r] = 0
              /\ local_rows[r] > 0 => dots[r] = 1
        /\ ~Multiplied(r) => dots[r] = 0

C22_Witness ==
    /\ num_procs = 3 /\ size = 2 /\ AllReturned
    /\ local_rows[2] = 0 /\ local_C[2] = Zeros(0, 2) /\ dots[2] = 0
    /\ local_rows[1] = 1 /\ local_C[1].rows = 1 /\ local_C[1].cols = 2 /\ dots[1] = 1

\* C23: in a call with size >= 0 no rank is ever stopped by an exception, and a
\* rank with rows that stands before np.dot holds a row block whose column
\* count is the row count of its B, both equal to size.
C23_KernelPreconditionHolds ==
    \A r \in Ranks :
        /\ ~Aborted(r)
        /\ (pc[r] = "multiply" /\ local_rows[r] > 0) =>
              /\ DotOK(local_A[r], B[r])
              /\ local_A[r].cols = size /\ B[r].rows = size

C23_Witness ==
    /\ num_procs = 3 /\ size = 3
    /\ pc[2] = "multiply" /\ local_rows[2] = 1 /\ DotOK(local_A[2], B[2])
    /\ Multiplied(1) /\ dots[1] = 1 /\ local_C[1] = Dot(local_A[1], B[1])

\* C24: every message in flight goes from the root to a worker with that
\* worker's scatter tag, or from a worker to the root with that worker's gather
\* tag: no worker sends to a worker.  The root has called its receive for
\* worker q only when its receives for all lower workers with rows have
\* returned.  When sends are rendezvous sends, a worker with rows has returned
\* from the call only when the root has received its block and the blocks of
\* all lower workers with rows.
C24_RootWorkerTrafficInRankOrder ==
    /\ \A c \in DOMAIN net :
          \A i \in 1 .. Len(net[c]) :
              \/ c[1] = 0 /\ c[2] # 0 /\ net[c][i].tag = ScatterTag(c[2])
              \/ c[2] = 0 /\ c[1] # 0 /\ net[c][i].tag = GatherTag(c[1])
    /\ \A q \in Ranks \ {0} :
          /\ issued["gather_recv"][q] > 0 => \A w \in LowerWorkers(q) : GatherReceived(w)
          /\ (sendMode = "rendezvous" /\ Returned(q) /\ local_rows[q] > 0) =>
                \A w \in LowerWorkers(q) \cup {q} : GatherReceived(w)

C24_Witness ==
    /\ num_procs = 3 /\ size = 3 /\ sendMode = "rendezvous"
    /\ pc[2] = "gather_send_wait" /\ net[<<2, 0>>] # <<>>
    /\ pc[1] = "multiply"
    /\ pc[0] = "gather_wait" /\ proc = 1

\* C25: in one call the scatter sends and the gather sends never exceed
\* max(0, min(size, num_procs) - 1); the root has sent exactly that many scatter
\* messages when its loop is over; and when every rank has returned, that many
\* scatter messages and that many gather messages were sent, as many were
\* received, and no message is left in flight.
C25_MessageCounts ==
    LET expected == Max(0, Min(size, num_procs) - 1)
    IN  /\ IssuedTotal("scatter_send") <= expected
        /\ IssuedTotal("gather_send") <= expected
        /\ ScatterLoopDone => IssuedTotal("scatter_send") = expected
        /\ AllReturned =>
              /\ IssuedTotal("scatter_send") = expected
              /\ IssuedTotal("gather_send") = expected
              /\ IssuedTotal("scatter_recv") = expected
              /\ IssuedTotal("gather_recv") = expected
              /\ \A c \in DOMAIN net : net[c] = <<>>

C25_Witness ==
    /\ num_procs = 3 /\ size = 2 /\ AllReturned
    /\ IssuedTotal("scatter_send") = 1 /\ IssuedTotal("gather_send") = 1
    /\ issued["gather_send"][1] = 1 /\ issued["gather_send"][2] = 0

\* C26: in a succession of calls with no barrier between them, each of any
\* size, the message a blocked receive takes was sent during the call the
\* receiving rank is in (worker receiving its rows, root receiving a result
\* block); every matrix the root has returned is the serial product for the
\* size of its call; no rank is stopped by an exception; every step takes some
\* rank further along its bounded sequence of statements (so the steps run
\* out); and the ranks come to rest only when every rank has returned from the
\* last call, with no message left in flight.
C26_SuccessiveCallsDoNotMix ==
    /\ [](/\ \A r \in Ranks \ {0} :
               (pc[r] = "distribute_wait" /\ CanRecv(0, r, ScatterTag(r))) =>
                   Taken(0, r, ScatterTag(r)).call = run[r]
          /\ (pc[0] = "gather_wait" /\ CanRecv(proc, 0, GatherTag(proc))) =>
                Taken(proc, 0, GatherTag(proc)).call = run[0]
          /\ \A k \in 1 .. Len(results) : results[k] = SerialProducts[sizes[k - 1]]
          /\ \A r \in Ranks : ~Aborted(r)
          /\ Progress <= ProgressMax
          /\ ~ENABLED SeqNext =>
                /\ AllDone
                /\ \A r \in Ranks : run[r] = NumCalls - 1
                /\ Len(results) = NumCalls
                /\ \A c \in DOMAIN net : net[c] = <<>>)
    /\ [][Progress' > Progress]_vars

C26_Witness ==
    /\ num_procs = 2 /\ sizes = [k \in 0 .. 2 |-> IF k = 0 THEN 2 ELSE IF k = 1 THEN 1 ELSE 2]
    /\ AllDone /\ Len(results) = 3
    /\ results[1].rows = 2 /\ results[2].rows = 1 /\ results[3] = results[1]
    /\ issued["scatter_send"][1] = 2 /\ issued["gather_recv"][1] = 2

\* C27: whether a blocking send returns only once its message is received
\* (rendezvous) or as soon as the message is queued (buffered), every rank
\* eventually returns from the call, the matrix the root returns is the serial
\* product of the seeded A and B (so the same matrix in both modes), and no
\* message is left in flight.
C27_SendModeDoesNotMatter ==
    <>[](/\ sendMode \in {"rendezvous", "buffered"}
         /\ AllDone
         /\ ret[0] = C_serial
         /\ \A c \in DOMAIN net : net[c] = <<>>)

\* C27 witness: with buffered sends, rank 1 of three has returned from the call
\* while its result block is still queued and the root has not yet started
\* gathering, which a rendezvous send does not allow.
C27_Witness ==
    /\ sendMode = "buffered" /\ num_procs = 3 /\ size = 3
    /\ pc[1] = "done" /\ net[<<1, 0>>] # <<>>
    /\ pc[0] = "multiply"

====
